---- MODULE Spec2Model ----
(***************************************************************************)
(* The forgetting engine of LongMemory (src/component/forgot.py):          *)
(* AdvancedForgettingSystem over the sqlite tables memory_scores and       *)
(* forgetting_log; the configuration it starts from                        *)
(* (src/component/config_manager.py); the collections of MemoryDatabase    *)
(* (src/component/toDatabase.py); and process_message_for_database         *)
(* (src/component/toEmbeding.py).                                          *)
(*                                                                         *)
(* Numbers.  Sub-scores (base, recency, emotional, frequency, ratio) are   *)
(* fixed-point integers in units of 1/10000; the composite score and the   *)
(* forgetting threshold are in units of 1/100000, so that                  *)
(*   final = base*0.4 + recency*0.3 + emotional*0.2 + frequency*0.1        *)
(* is 4*base + 3*recency + 2*emotional + 1*frequency.  Time is in days.    *)
(***************************************************************************)
EXTENDS Integers, Sequences, FiniteSets, TLC

VARIABLES
    columns,          \* the column names of table memory_scores
    threshold,        \* config value forgetting_threshold
    memory_scores,    \* the rows of memory_scores, by memory_id
    forgetting_log,   \* the rows of forgetting_log, in id order
    now,              \* datetime.now(), in days
    result,           \* outcome of the last execute_forgetting call
    increments,       \* completed update_access_count calls, by memory_id
    pass,             \* the execute_forgetting call in progress, if any
    passes,           \* the execute_forgetting calls of two threads
    config_file,      \* what is at the path of the configuration file
    config_manager,   \* outcome of the last ConfigManager(config_file)
    instant,          \* datetime.now(), in fractions of a second
    collections,      \* the ids in each collection of MemoryDatabase
    returned,         \* the ids the store calls have returned, in order
    passed,           \* the number of texts passed to the store calls
    extracted_data,   \* what extract_entity_relation returns for the message
    processed         \* outcome of the last process_message_for_database

config_vars == <<config_file, config_manager>>

database_vars == <<instant, collections, returned, passed>>

message_vars == <<extracted_data, processed>>

vars == <<columns, threshold, memory_scores, forgetting_log, now, result,
          increments, pass, passes, config_vars, database_vars, message_vars>>

----------------------------------------------------------------------------
(* Bounds of the model *)

MemIds == {"m1", "m2"}
Users == {"u1", "u2"}
MaxAccess == 1
MaxLog == 2
MaxTicks == 1
HalfLifeDays == 30
TickDays == HalfLifeDays
StartDay == 2 * HalfLifeDays
CreatedDays == {0, HalfLifeDays}
\* a created_at that a clock ahead of this one has written
SkewedDay == StartDay + HalfLifeDays
YoungestDay == HalfLifeDays
LowBase == 1000
LowEmotional == 1000
BaseScores == {LowBase, 5000}
EmotionalWeights == {0, LowEmotional}
Ratios == {0, 7000, 10000}
Thresholds == {20000, 30000}

\* the configuration defines no forgetting_threshold
NoThreshold == -1

\* SQL NULL in a timestamp column and in a text column; a text is the
\* sequence of its characters, and NULL is no text
NoTime == -1
NoText == <<"NULL">>

\* sqlite rowid of a row: the order in which the rows were inserted
RowId(m) == IF m = "m1" THEN 1 ELSE IF m = "m2" THEN 2 ELSE 3

\* stored texts: "a. bb. ccc. ddd. e" has five sentences, "a. bb" has two
Content5 == <<"a", ".", " ", "b", "b", ".", " ", "c", "c", "c", ".", " ",
              "d", "d", "d", ".", " ", "e">>
Content2 == <<"a", ".", " ", "b", "b">>
ContentOf(m) == IF m = "m1" THEN Content5 ELSE Content2

\* the texts of the compression runs: up to MaxSentences sentences joined
\* by ". ", a sentence being empty, a letter or two, or a lone full stop
MaxSentences == 4
Sentences == {<<>>, <<"a">>, <<"b">>, <<"a", "a">>, <<".">>}

----------------------------------------------------------------------------
(* Schema and configuration *)

Stages == <<"intact", "compressed", "archived", "forgotten">>

\* the columns _init_database gives memory_scores
EngineColumns ==
    {"memory_id", "user_id", "content_hash", "base_score", "recency_boost",
     "emotional_weight", "access_count", "last_accessed", "created_at",
     "compression_ratio", "forgetting_stage", "compressed_content",
     "semantic_tags"}

\* CREATE TABLE IF NOT EXISTS keeps a table that is already there: the rows
\* are inserted by a collaborator, whose table also carries the content
\* column that execute_forgetting selects
ExistingColumns == EngineColumns \cup {"content"}

DefaultThreshold == 20000
DefaultBase == 5000
DefaultRatio == 10000

\* config_manager.get_memory_config().get("forgetting_threshold", 0.2)
forgetting_threshold ==
    IF threshold = NoThreshold THEN DefaultThreshold ELSE threshold

\* dict.get(key, default) on the dict built from a row and the column names
Get(row, key, default) == IF key \in columns THEN row[key] ELSE default

----------------------------------------------------------------------------
(* calculate_memory_score *)

\* np.exp(-k), rounded to 1/10000; k is negative when created_at is later
\* than now, and no age of the model is below -2 * HalfLifeDays
ExpMinus(k) ==
    CASE k = -2 -> 73891
      [] k = -1 -> 27183
      [] k = 0 -> 10000
      [] k = 1 -> 3679
      [] k = 2 -> 1353
      [] k = 3 -> 498
      [] k = 4 -> 183
      [] k = 5 -> 67
      [] k = 6 -> 25
      [] k = 7 -> 9
      [] k = 8 -> 3
      [] k = 9 -> 1
      [] OTHER -> 0

\* np.exp(-age_days / 30); the ages of the model are whole multiples of
\* 30 days
Exp30(age_days) == ExpMinus(age_days \div HalfLifeDays)

Min(a, b) == IF a < b THEN a ELSE b

calculate_memory_score(memory_data, t) ==
    LET age_days == t - memory_data.created_at
        recency_boost == Exp30(age_days)
        emotional_weight == Get(memory_data, "emotional_score", 0)
        access_freq == Get(memory_data, "access_count", 0)
        frequency_boost == Min(access_freq * 1000, 5000)
        base_score == Get(memory_data, "importance_score", 5000)
    IN  [memory_id |-> memory_data.memory_id,
         base_score |-> base_score,
         recency_boost |-> recency_boost,
         emotional_weight |-> emotional_weight,
         access_frequency |-> access_freq,
         compression_ratio |-> Get(memory_data, "compression_ratio", 10000),
         final_score |-> 4 * base_score + 3 * recency_boost
                         + 2 * emotional_weight + 1 * frequency_boost]

----------------------------------------------------------------------------
(* should_forget, should_compress, compress_memory *)

\* should_forget with the default threshold in place of the configured one
should_forget_at_default(memory_data, t, thr) ==
    LET score == calculate_memory_score(memory_data, t)
    IN  IF score.final_score < DefaultThreshold
        THEN <<TRUE, "Low score">>
        ELSE IF memory_data.forgetting_stage = "intact"
                /\ score.compression_ratio > 8000
        THEN <<FALSE, "Ready for compression">>
        ELSE IF memory_data.forgetting_stage = "compressed"
                /\ score.final_score < 50000
        THEN <<FALSE, "Ready for archival">>
        ELSE <<FALSE, "Memory retained">>

should_forget(memory_data, t, thr) ==
    LET score == calculate_memory_score(memory_data, t)
    IN  IF score.final_score < thr
        THEN <<TRUE, "Low score">>
        ELSE IF memory_data.forgetting_stage = "intact"
                /\ score.compression_ratio > 8000
        THEN <<FALSE, "Ready for compression">>
        ELSE IF memory_data.forgetting_stage = "compressed"
                /\ score.final_score < 50000
        THEN <<FALSE, "Ready for archival">>
        ELSE <<FALSE, "Memory retained">>

\* "row and row[0]": a stored ratio of 0 is falsy, and falls to return True
should_compress(row) ==
    IF row.compression_ratio # 0
    THEN row.compression_ratio > 7000
    ELSE TRUE

\* the prefix "[COMPRESSED] "
Marker == <<"[COMPRESSED]", " ">>

Separator == <<".", " ">>

\* content.find('. ') + 1: where the first separator starts, 0 if none
FirstSeparator(text) ==
    LET at == {i \in 1..(Len(text) - 1) : text[i] = "." /\ text[i + 1] = " "}
    IN  IF at = {} THEN 0 ELSE CHOOSE i \in at : \A k \in at : i <= k

\* content.split('. '): the pieces between the occurrences of the
\* separator, found from left to right.  (The text is bound as a value, so
\* that TLC evaluates it once.)
RECURSIVE Split(_)
Split(content) ==
    CHOOSE sentences \in
        {IF FirstSeparator(text) = 0
         THEN <<text>>
         ELSE <<SubSeq(text, 1, FirstSeparator(text) - 1)>>
                \o Split(SubSeq(text, FirstSeparator(text) + 2, Len(text))) :
           text \in {content}} : TRUE

\* '. '.join(sentences)
RECURSIVE Join(_)
Join(sentences) ==
    IF Len(sentences) = 0 THEN <<>>
    ELSE IF Len(sentences) = 1 THEN sentences[1]
    ELSE sentences[1] \o Separator \o Join(Tail(sentences))

\* max(sentences[1:-1], key=len): the first sentence of maximal length
Longest(sentences) ==
    LET interior == SubSeq(sentences, 2, Len(sentences) - 1)
        best == CHOOSE i \in 1..Len(interior) :
                  /\ \A j \in 1..Len(interior) : Len(interior[j]) <= Len(interior[i])
                  /\ \A j \in 1..(i - 1) : Len(interior[j]) < Len(interior[i])
    IN  interior[best]

\* the key sentences joined, behind the marker
KeySentences(sentences) ==
    LET first == sentences[1]
        last == sentences[Len(sentences)]
        longest == Longest(sentences)
        key_sentences == IF longest # <<>>
                         THEN <<first, longest, last>>
                         ELSE <<first, last>>
    IN  Marker \o Join(key_sentences)

\* a compress_memory that leaves only two sentences or fewer as they are
compress_memory_two_or_fewer(content) ==
    CHOOSE compressed \in
        {IF Len(sentences) <= 2 THEN content ELSE KeySentences(sentences) :
           sentences \in {Split(content)}} : TRUE

compress_memory(content) ==
    CHOOSE compressed \in
        {IF Len(sentences) <= 3 THEN content ELSE KeySentences(sentences) :
           sentences \in {Split(content)}} : TRUE

----------------------------------------------------------------------------
(* execute_forgetting *)

\* SELECT memory_id ... WHERE user_id = ? AND forgetting_stage != 'forgotten'
\* ORDER BY created_at ASC (rows of equal created_at in rowid order)
Before(a, b) ==
    \/ memory_scores[a].created_at < memory_scores[b].created_at
    \/ /\ memory_scores[a].created_at = memory_scores[b].created_at
       /\ RowId(a) < RowId(b)

\* the same query without "AND forgetting_stage != 'forgotten'"
ActiveMemoriesOfAnyStage(user_id) ==
    LET active == {m \in MemIds : memory_scores[m].user_id = user_id}
    IN  CHOOSE s \in [1..Cardinality(active) -> active] :
          \A i, j \in 1..Cardinality(active) : i < j => Before(s[i], s[j])

\* the same query without "user_id = ? AND"
ActiveMemoriesOfAnyUser(user_id) ==
    LET active == {m \in MemIds : memory_scores[m].forgetting_stage # "forgotten"}
    IN  CHOOSE s \in [1..Cardinality(active) -> active] :
          \A i, j \in 1..Cardinality(active) : i < j => Before(s[i], s[j])

ActiveMemories(user_id) ==
    LET active == {m \in MemIds : /\ memory_scores[m].user_id = user_id
                                  /\ memory_scores[m].forgetting_stage # "forgotten"}
    IN  CHOOSE s \in [1..Cardinality(active) -> active] :
          \A i, j \in 1..Cardinality(active) : i < j => Before(s[i], s[j])

NoActions == [compressed |-> <<>>, archived |-> <<>>,
              forgotten |-> <<>>, retained |-> <<>>]

\* a chain that forgets whatever should_forget condemns, at any stage
NewStageForgetsAtOnce(current_stage, compress, shouldForget) ==
    IF shouldForget THEN "forgotten"
    ELSE IF compress THEN "compressed"
    ELSE current_stage

\* the if / elif chain that picks the new stage
NewStage(current_stage, compress, shouldForget) ==
    IF compress THEN "compressed"
    ELSE IF current_stage = "compressed" /\ shouldForget THEN "archived"
    ELSE IF current_stage = "archived" /\ shouldForget THEN "forgotten"
    ELSE current_stage

\* the list of the actions dict that the same chain appends memory_id to
Bucket(current_stage, compress, shouldForget) ==
    IF compress THEN "compressed"
    ELSE IF current_stage = "compressed" /\ shouldForget THEN "archived"
    ELSE IF current_stage = "archived" /\ shouldForget THEN "forgotten"
    ELSE "retained"

\* a log row that records the new stage in both stage columns
LogEntryNewStageTwice(memory_id, current_stage, new_stage, reason) ==
    [memory_id |-> memory_id, old_stage |-> new_stage,
     new_stage |-> new_stage, reason |-> reason]

\* the row INSERTed INTO forgetting_log
LogEntry(memory_id, current_stage, new_stage, reason) ==
    [memory_id |-> memory_id, old_stage |-> current_stage,
     new_stage |-> new_stage, reason |-> reason]

\* a dry run that still stamps last_accessed
DryRunStampsAccess(st, memory_id, shouldForget) ==
    [st EXCEPT
       !.actions[IF shouldForget THEN "forgotten" ELSE "retained"] =
           Append(@, memory_id),
       !.rows[memory_id].last_accessed = now]

\* a dry run that lists the forgotten memories only
DryRunListsForgottenOnly(st, memory_id, shouldForget) ==
    IF shouldForget
    THEN [st EXCEPT !.actions.forgotten = Append(@, memory_id)]
    ELSE st

\* "if dry_run:", analysis only
DryRun(st, memory_id, shouldForget) ==
    IF shouldForget
    THEN [st EXCEPT !.actions.forgotten = Append(@, memory_id)]
    ELSE [st EXCEPT !.actions.retained = Append(@, memory_id)]

\* an UPDATE that also puts compression_ratio back to the column default
TransitionResetsRatio(st, memory_id, shouldForget, reason) ==
    LET row == st.rows[memory_id]
        current_stage == row.forgetting_stage
        compress == /\ current_stage = "intact"
                    /\ should_compress(memory_scores[memory_id])
        new_stage == NewStage(current_stage, compress, shouldForget)
        compressed_content ==
            IF compress THEN compress_memory(row.content) ELSE NoText
    IN  IF compress /\ row.content = NoText
        THEN [st EXCEPT !.compress_calls = Append(@, memory_id),
                        !.raised = TRUE]
        ELSE
        [st EXCEPT
           !.actions[Bucket(current_stage, compress, shouldForget)] =
               Append(@, memory_id),
           !.compress_calls = IF compress THEN Append(@, memory_id) ELSE @,
           !.rows[memory_id] =
               [@ EXCEPT !.forgetting_stage = new_stage,
                         !.compressed_content = compressed_content,
                         !.compression_ratio = DefaultRatio,
                         !.last_accessed = now],
           !.log = Append(@, LogEntry(memory_id, current_stage,
                                      new_stage, reason))]

\* the stage transition of one memory, its UPDATE and its log INSERT;
\* compress_memory(memory_id, None) raises AttributeError at content.split
\* when the stored content is NULL
Transition(st, memory_id, shouldForget, reason) ==
    LET row == st.rows[memory_id]
        current_stage == row.forgetting_stage
        compress == /\ current_stage = "intact"
                    /\ should_compress(memory_scores[memory_id])
        new_stage == NewStage(current_stage, compress, shouldForget)
        compressed_content ==
            IF compress THEN compress_memory(row.content) ELSE NoText
    IN  IF compress /\ row.content = NoText
        THEN [st EXCEPT !.compress_calls = Append(@, memory_id),
                        !.raised = TRUE]
        ELSE
        [st EXCEPT
           !.actions[Bucket(current_stage, compress, shouldForget)] =
               Append(@, memory_id),
           !.compress_calls = IF compress THEN Append(@, memory_id) ELSE @,
           !.rows[memory_id] =
               [@ EXCEPT !.forgetting_stage = new_stage,
                         !.compressed_content = compressed_content,
                         !.last_accessed = now],
           !.log = Append(@, LogEntry(memory_id, current_stage,
                                      new_stage, reason))]

\* one iteration of "for (memory_id,) in memories", on the state st of the
\* pass: the rows as the pass's connection sees them, the log rows it has
\* inserted, the actions dict, and the calls of compress_memory.
\* should_forget and should_compress read through connections of their
\* own, which see the committed rows.  SELECT forgetting_stage, content
\* raises OperationalError on a table without a content column.
Iteration(st, memory_id, dry_run) ==
    LET sf == should_forget(memory_scores[memory_id], now,
                            forgetting_threshold)
    IN  IF "content" \notin columns
        THEN [st EXCEPT !.raised = TRUE]
        ELSE IF dry_run
        THEN DryRun(st, memory_id, sf[1])
        ELSE Transition(st, memory_id, sf[1], sf[2])

\* the loop over the fetched ids; an exception ends it.  (The state of the
\* pass is bound as a value, s, so that TLC evaluates each iteration once.)
RECURSIVE Loop(_, _, _, _)
Loop(st, memories, i, dry_run) ==
    CHOOSE after \in
        {IF i > Len(memories) \/ s.raised
         THEN s
         ELSE Loop(Iteration(s, memories[i], dry_run), memories, i + 1, dry_run) :
           s \in {st}} : TRUE

\* the pass over the active memories of user_id, from the committed state
Pass(user_id, dry_run) ==
    Loop([rows |-> memory_scores, log |-> <<>>, actions |-> NoActions,
          compress_calls |-> <<>>, raised |-> FALSE],
         ActiveMemories(user_id), 1, dry_run)

NoResult == [kind |-> "none", user_id |-> "none", dry_run |-> FALSE,
             actions |-> NoActions, compress_calls |-> <<>>]

\* forgetting_log holds the first MaxLog rows of the table
Keep(log) == SubSeq(log, 1, Min(Len(log), MaxLog))

\* an exception leaves execute_forgetting before conn.commit(): the
\* connection is dropped and its uncommitted writes are rolled back
execute_forgetting(user_id, dry_run) ==
    \E st \in {Pass(user_id, dry_run)} :
        /\ IF st.raised
           THEN /\ UNCHANGED <<memory_scores, forgetting_log>>
                /\ result' = [kind |-> "raised", user_id |-> user_id,
                              dry_run |-> dry_run, actions |-> NoActions,
                              compress_calls |-> st.compress_calls]
           ELSE /\ memory_scores' = st.rows
                /\ forgetting_log' = Keep(forgetting_log \o st.log)
                /\ result' = [kind |-> "summary", user_id |-> user_id,
                              dry_run |-> dry_run, actions |-> st.actions,
                              compress_calls |-> st.compress_calls]
        /\ UNCHANGED <<columns, threshold, now, increments>>

----------------------------------------------------------------------------
(* update_access_count *)

\* an UPDATE without its WHERE clause
update_access_count_of_all(memory_id) ==
    /\ memory_scores' =
          [m \in MemIds |->
             [memory_scores[m] EXCEPT !.access_count = @ + 1,
                                      !.last_accessed = now]]
    /\ increments' = [increments EXCEPT ![memory_id] = @ + 1]
    /\ UNCHANGED <<columns, threshold, forgetting_log, now, result>>

update_access_count(memory_id) ==
    /\ memory_scores' =
          [memory_scores EXCEPT
             ![memory_id].access_count = @ + 1,
             ![memory_id].last_accessed = now]
    /\ increments' = [increments EXCEPT ![memory_id] = @ + 1]
    /\ UNCHANGED <<columns, threshold, forgetting_log, now, result>>

----------------------------------------------------------------------------
(* The clock *)

Tick ==
    /\ now' = now + TickDays
    /\ UNCHANGED <<columns, threshold, memory_scores, forgetting_log, result,
                   increments>>

----------------------------------------------------------------------------
(* execute_forgetting statement by statement, for the runs in which         *)
(* update_access_count is called from another thread while a pass is under  *)
(* way.  sqlite lets one connection write at a time: the pass holds the     *)
(* write lock from its first UPDATE to its commit, and an UPDATE of another *)
(* connection waits for the lock (or gives up with "database is locked",    *)
(* and then the call has not completed).                                    *)

NoState == [rows |-> <<>>, log |-> <<>>, actions |-> NoActions,
            compress_calls |-> <<>>, raised |-> FALSE]

\* selected_at: the completed increments when the pass selected its ids
NoPass == [phase |-> "none", user_id |-> "none", memories |-> <<>>, i |-> 0,
           st |-> NoState, selected_at |-> <<>>]

InProgress == pass.phase = "running"

\* the memories the pass has UPDATEd
Written(st) == {st.log[i].memory_id : i \in 1..Len(st.log)}

WriteLocked == InProgress /\ pass.st.log # <<>>

\* a pass that works on the rows as they were when it selected its ids
ViewAtSelect(st) == st

\* what the connection of the pass reads: the committed rows, and its own
\* uncommitted UPDATEs
View(st) ==
    [st EXCEPT !.rows = [m \in MemIds |-> IF m \in Written(st)
                                          THEN st.rows[m]
                                          ELSE memory_scores[m]]]

\* connect, SELECT memory_id ..., fetchall, actions = {...}
execute_forgetting_select(user_id) ==
    /\ ~InProgress
    /\ pass' = [phase |-> "running", user_id |-> user_id,
                memories |-> ActiveMemories(user_id), i |-> 1,
                st |-> [rows |-> memory_scores, log |-> <<>>,
                        actions |-> NoActions, compress_calls |-> <<>>,
                        raised |-> FALSE],
                selected_at |-> increments]
    /\ UNCHANGED <<columns, threshold, memory_scores, forgetting_log, now,
                   result, increments>>

\* one iteration of the loop
execute_forgetting_iterate ==
    /\ InProgress
    /\ pass.i <= Len(pass.memories)
    /\ ~pass.st.raised
    /\ pass' = [pass EXCEPT
                  !.i = @ + 1,
                  !.st = Iteration(View(pass.st), pass.memories[pass.i], FALSE)]
    /\ UNCHANGED <<columns, threshold, memory_scores, forgetting_log, now,
                   result, increments>>

\* conn.commit() and return actions, or the exception leaving the call
execute_forgetting_commit ==
    /\ InProgress
    /\ pass.i > Len(pass.memories) \/ pass.st.raised
    /\ IF pass.st.raised
       THEN /\ UNCHANGED <<memory_scores, forgetting_log>>
            /\ result' = [kind |-> "raised", user_id |-> pass.user_id,
                          dry_run |-> FALSE, actions |-> NoActions,
                          compress_calls |-> pass.st.compress_calls]
       ELSE /\ memory_scores' = View(pass.st).rows
            /\ forgetting_log' = Keep(forgetting_log \o pass.st.log)
            /\ result' = [kind |-> "summary", user_id |-> pass.user_id,
                          dry_run |-> FALSE, actions |-> pass.st.actions,
                          compress_calls |-> pass.st.compress_calls]
    /\ pass' = [pass EXCEPT !.phase = "done", !.i = 0, !.st = NoState]
    /\ UNCHANGED <<columns, threshold, now, increments>>

\* an interruption that rolls back the rows and keeps the log rows
execute_forgetting_interrupt_keeps_log ==
    /\ InProgress
    /\ forgetting_log' = Keep(forgetting_log \o pass.st.log)
    /\ result' = [kind |-> "raised", user_id |-> pass.user_id,
                  dry_run |-> FALSE, actions |-> NoActions,
                  compress_calls |-> pass.st.compress_calls]
    /\ pass' = [pass EXCEPT !.phase = "interrupted"]
    /\ UNCHANGED <<columns, threshold, memory_scores, now, increments>>

\* the process dies, or an exception leaves the call, before conn.commit():
\* sqlite rolls the open transaction back, with all the UPDATEs and INSERTs
\* of the pass.  The record of the pass keeps what it had written.
execute_forgetting_interrupt ==
    /\ InProgress
    /\ result' = [kind |-> "raised", user_id |-> pass.user_id,
                  dry_run |-> FALSE, actions |-> NoActions,
                  compress_calls |-> pass.st.compress_calls]
    /\ pass' = [pass EXCEPT !.phase = "interrupted"]
    /\ UNCHANGED <<columns, threshold, memory_scores, forgetting_log, now,
                   increments>>

----------------------------------------------------------------------------
(* Two threads in execute_forgetting.  Each call has its own connection.    *)
(* In an iteration the call first reads (should_forget, the SELECT of the   *)
(* stage and the content, should_compress) and then writes (UPDATE,         *)
(* INSERT); between the two, the other thread may run.  The first UPDATE    *)
(* of a call takes the write lock, which the call keeps to its commit; an   *)
(* UPDATE of the other call then waits for the lock, or gives up with       *)
(* "database is locked".                                                    *)

PassIds == {1, 2}

\* next: the state of the pass after the iteration it has decided on
NoRacer == [phase |-> "none", user_id |-> "none", memories |-> <<>>, i |-> 0,
            st |-> NoState, evaluated |-> FALSE, next |-> NoState]

NoPasses == [p \in PassIds |-> NoRacer]

Running(p) == passes[p].phase = "running"

\* another call has written and has not committed
Locked(p) ==
    \E q \in PassIds \ {p} : Running(q) /\ passes[q].st.log # <<>>

\* the log rows that the calls under way may still insert
Inserts(p) == IF Running(p) THEN Len(passes[p].memories) ELSE 0

Pending == Inserts(1) + Inserts(2)

Outcome(p, kind, actions) ==
    [kind |-> kind, user_id |-> passes[p].user_id, dry_run |-> FALSE,
     actions |-> actions, compress_calls |-> passes[p].st.compress_calls]

\* connect, SELECT memory_id ..., fetchall, actions = {...}
pass_select(p, user_id) ==
    /\ ~Running(p)
    /\ passes' = [passes EXCEPT ![p] =
                    [phase |-> "running", user_id |-> user_id,
                     memories |-> ActiveMemories(user_id), i |-> 1,
                     st |-> [NoState EXCEPT !.rows = memory_scores],
                     evaluated |-> FALSE, next |-> NoState]]
    /\ UNCHANGED <<columns, threshold, memory_scores, forgetting_log, now,
                   result, increments>>

\* the reads of an iteration, and the if / elif chain
pass_evaluate(p) ==
    /\ Running(p)
    /\ passes[p].i <= Len(passes[p].memories)
    /\ ~passes[p].evaluated
    /\ passes' = [passes EXCEPT
                    ![p].evaluated = TRUE,
                    ![p].next = Iteration(View(passes[p].st),
                                          passes[p].memories[passes[p].i],
                                          FALSE)]
    /\ UNCHANGED <<columns, threshold, memory_scores, forgetting_log, now,
                   result, increments>>

\* the UPDATE and the INSERT of the iteration: the UPDATE sets the stage
\* decided on, the compressed content and last_accessed in the row as it
\* is now
pass_update(p) ==
    LET memory_id == passes[p].memories[passes[p].i]
        next == passes[p].next
    IN  /\ Running(p)
        /\ passes[p].evaluated
        /\ ~next.raised
        /\ ~Locked(p)
        /\ passes' = [passes EXCEPT
             ![p].evaluated = FALSE,
             ![p].next = NoState,
             ![p].i = @ + 1,
             ![p].st =
                 [next EXCEPT !.rows[memory_id] =
                    [memory_scores[memory_id] EXCEPT
                       !.forgetting_stage =
                           next.rows[memory_id].forgetting_stage,
                       !.compressed_content =
                           next.rows[memory_id].compressed_content,
                       !.last_accessed = now]]]
        /\ UNCHANGED <<columns, threshold, memory_scores, forgetting_log,
                       now, result, increments>>

\* an exception leaves the call: one raised by the reads of the iteration,
\* or OperationalError, database is locked, raised by the UPDATE
pass_raise(p) ==
    /\ Running(p)
    /\ passes[p].evaluated
    /\ passes[p].next.raised \/ Locked(p)
    /\ result' = Outcome(p, "raised", NoActions)
    /\ passes' = [passes EXCEPT ![p] = NoRacer]
    /\ UNCHANGED <<columns, threshold, memory_scores, forgetting_log, now,
                   increments>>

\* conn.commit() and return actions
pass_commit(p) ==
    /\ Running(p)
    /\ passes[p].i > Len(passes[p].memories)
    /\ memory_scores' = View(passes[p].st).rows
    /\ forgetting_log' = Keep(forgetting_log \o passes[p].st.log)
    /\ result' = Outcome(p, "summary", passes[p].st.actions)
    /\ passes' = [passes EXCEPT ![p] = NoRacer]
    /\ UNCHANGED <<columns, threshold, now, increments>>

----------------------------------------------------------------------------
(* ConfigManager *)

required_fields == <<"apiKey", "chatModel", "embeddingModel">>

Required == {"apiKey", "chatModel", "embeddingModel"}

\* what a JSON object holds for a key: nothing, a falsy value ("", null,
\* 0, false, [], {}), or a non-empty string
FieldValues == {"absent", "empty", "text"}

NoFields == [field \in Required |-> "absent"]

\* what is at the path: nothing, a directory, a file that is not JSON, a
\* JSON number, an empty JSON array, or a JSON object
FileKinds == {"missing", "directory", "garbage", "number", "array", "object"}

ConfigFiles ==
    {file \in [kind : FileKinds, fields : [Required -> FieldValues]] :
       file.kind # "object" => file.fields = NoFields}

ValidFile == [kind |-> "object", fields |-> [field \in Required |-> "text"]]

CONFIG_MISSING == 5001
CONFIG_INVALID == 5002

NoError == [type |-> "none", code |-> 0, missing_fields |-> <<>>]

Raise(type, code, missing_fields) ==
    [type |-> type, code |-> code, missing_fields |-> missing_fields]

\* "field not in self.config or not self.config[field]", field by field;
\* the membership test on a number raises TypeError
validate_config(file) ==
    LET missing_fields ==
          SelectSeq(required_fields,
                    LAMBDA field : file.fields[field] \in {"absent", "empty"})
    IN  IF file.kind = "number"
        THEN Raise("TypeError", 0, <<>>)
        ELSE IF missing_fields # <<>>
        THEN Raise("ConfigurationError", CONFIG_MISSING, missing_fields)
        ELSE NoError

\* the body of the try statement: os.path.exists, open, json.load,
\* self._validate_config()
TryLoad(file) ==
    IF file.kind = "missing"
    THEN Raise("ConfigurationError", CONFIG_MISSING, <<>>)
    ELSE IF file.kind = "directory"
    THEN Raise("IsADirectoryError", 0, <<>>)
    ELSE IF file.kind = "garbage"
    THEN Raise("JSONDecodeError", 0, <<>>)
    ELSE validate_config(file)

\* a load_config with the clause "except json.JSONDecodeError" only
load_config_json_errors_only(file) ==
    LET e == TryLoad(file)
    IN  IF e.type = "JSONDecodeError"
        THEN Raise("ConfigurationError", CONFIG_INVALID, <<>>)
        ELSE e

\* the try statement with its two except clauses
load_config(file) ==
    LET e == TryLoad(file)
    IN  IF e.type = "JSONDecodeError"
        THEN Raise("ConfigurationError", CONFIG_INVALID, <<>>)
        ELSE IF e.type \notin {"none", "ConfigurationError"}
        THEN Raise("ConfigurationError", CONFIG_INVALID, <<>>)
        ELSE e

NotConstructed == [state |-> "none", error |-> NoError, config |-> NoFields]

Constructed(file) ==
    [state |-> "constructed", error |-> NoError, config |-> file.fields]

\* ConfigManager(config_file): __init__ calls load_config
ConfigManager ==
    /\ config_manager' =
          LET e == load_config(config_file)
          IN  IF e.type = "none"
              THEN Constructed(config_file)
              ELSE [state |-> "raised", error |-> e, config |-> NoFields]
    /\ UNCHANGED config_file

\* somebody puts something else at the path
WriteConfigFile(file) ==
    /\ config_file' = file
    /\ UNCHANGED config_manager

\* the configuration the engine and the database are imported with
Configured ==
    /\ config_file = ValidFile
    /\ config_manager = Constructed(ValidFile)

----------------------------------------------------------------------------
(* MemoryDatabase: store_entities, store_relations, store_summaries *)

Kinds == {"entity", "relation", "summary"}
MaxTexts == 2
MaxPassed == 3
TicksPerSecond == 2
MaxInstant == 2

\* datetime.now().strftime('%Y%m%d%H%M%S'): the time to the second
strftime(t) == t \div TicksPerSecond

\* [f"{kind}_{...}_{i}" for i in range(len(texts))]
Ids(kind, t, n) == [i \in 1..n |-> <<kind, strftime(t), i - 1>>]

\* collection.add with ids that the collection already holds: depending on
\* the version of chromadb the call raises, or it skips those ids
DuplicateOutcomes == {"raise", "skip"}

\* one of the three store methods, on a list of n texts
store(kind, n) ==
    LET ids == Ids(kind, instant, n)
        new == {ids[i] : i \in 1..n}
    IN  /\ passed' = [passed EXCEPT ![kind] = @ + n]
        /\ IF n = 0
           THEN UNCHANGED <<collections, returned>>
           ELSE \E outcome \in DuplicateOutcomes :
                  IF outcome = "raise" /\ new \cap collections[kind] # {}
                  THEN UNCHANGED <<collections, returned>>
                  ELSE /\ collections' =
                            [collections EXCEPT ![kind] = @ \cup new]
                       /\ returned' = [returned EXCEPT ![kind] = @ \o ids]
        /\ UNCHANGED instant

store_entities(n) == store("entity", n)

store_relations(n) == store("relation", n)

store_summaries(n) == store("summary", n)

\* time passes
TickInstant ==
    /\ instant' = instant + 1
    /\ UNCHANGED <<collections, returned, passed>>

\* a MemoryDatabase on a store without collections
DatabaseIdle ==
    /\ instant = 0
    /\ collections = [kind \in Kinds |-> {}]
    /\ returned = [kind \in Kinds |-> <<>>]
    /\ passed = [kind \in Kinds |-> 0]

----------------------------------------------------------------------------
(* process_message_for_database *)

MaxEntities == 2
MaxRelations == 1

\* a name as the model returns it: empty (or blank), or a word
Names == {"", "A"}
RelationTypes == {"", "likes"}
Summaries == {"", "A likes A"}

\* an item of "entities": its name, and whether it has the key 'type'
Entities == [name : Names, type : {"absent", "person"}]

\* an item of "relations", a missing key being the empty string
Relations == [subject : Names, relation : RelationTypes, object : Names]

SeqsUpTo(S, n) == UNION {[1..k -> S] : k \in 0..n}

\* what extract_entity_relation returns: the three extractions, each made
\* on its own, or an error (with or without the key 'raw_output')
ExtractionResults ==
    [error : {FALSE}, raw_output : {FALSE},
     entities : SeqsUpTo(Entities, MaxEntities),
     relations : SeqsUpTo(Relations, MaxRelations),
     summary : Summaries]
    \cup [error : {TRUE}, raw_output : BOOLEAN,
          entities : {<<>>}, relations : {<<>>}, summary : {""}]

\* response.data[i].embedding: one vector for each input text
Embedding(text) == <<"embedding", text>>

\* TextEmbedder.get_embeddings
get_embeddings(texts) == [i \in 1..Len(texts) |-> Embedding(texts[i])]

\* f"{entity['name']} ({entity['type']})" of the entities with a name
RECURSIVE EntityTexts(_)
EntityTexts(entities_data) ==
    IF entities_data = <<>> THEN <<>>
    ELSE LET entity == Head(entities_data)
         IN  (IF entity.name # ""
              THEN <<<<entity.name, entity.type>>>>
              ELSE <<>>) \o EntityTexts(Tail(entities_data))

\* a relation with its empty subject or object filled in from the other
Inferred(relation) ==
    IF relation.subject = "" /\ relation.object # "" /\ relation.relation # ""
    THEN [relation EXCEPT !.subject = relation.object]
    ELSE IF relation.object = "" /\ relation.subject # ""
                                 /\ relation.relation # ""
    THEN [relation EXCEPT !.object = relation.subject]
    ELSE relation

\* f"{subject} {relation_type} {object_name}" of the complete relations
RECURSIVE RelationTexts(_)
RelationTexts(relations_data) ==
    IF relations_data = <<>> THEN <<>>
    ELSE LET relation == Inferred(Head(relations_data))
         IN  (IF relation.subject # "" /\ relation.relation # ""
                                       /\ relation.object # ""
              THEN <<<<relation.subject, relation.relation, relation.object>>>>
              ELSE <<>>) \o RelationTexts(Tail(relations_data))

Metadata(texts, type) == [i \in 1..Len(texts) |-> [type |-> type]]

NotProcessed ==
    [kind |-> "none", entities |-> <<>>, relations |-> <<>>,
     summaries |-> <<>>, entity_embeddings |-> <<>>,
     relation_embeddings |-> <<>>, summary_embeddings |-> <<>>,
     entities_metadata |-> <<>>, relations_metadata |-> <<>>,
     summaries_metadata |-> <<>>]

\* the branch 'if "error" in extracted_data'
ErrorResult(extracted) ==
    LET error_text == IF extracted.raw_output
                      THEN <<"Extraction error", ", contains raw output">>
                      ELSE <<"Extraction error">>
    IN  [NotProcessed EXCEPT
           !.kind = "returned",
           !.summaries = <<error_text>>,
           !.summary_embeddings = <<Embedding(error_text)>>,
           !.summaries_metadata = <<[type |-> "error"]>>]

\* the value process_message_for_database returns; entity['type'] raises
\* KeyError for a named entity without the key
Processed(extracted) ==
    LET entities == EntityTexts(extracted.entities)
        relations == RelationTexts(extracted.relations)
        summaries == IF extracted.summary # ""
                     THEN <<extracted.summary>> ELSE <<>>
    IN  IF extracted.error
        THEN ErrorResult(extracted)
        ELSE IF \E i \in 1..Len(entities) : entities[i][2] = "absent"
        THEN [NotProcessed EXCEPT !.kind = "raised"]
        ELSE [kind |-> "returned",
              entities |-> entities,
              relations |-> relations,
              summaries |-> summaries,
              entity_embeddings |->
                  IF entities # <<>> THEN get_embeddings(entities) ELSE <<>>,
              relation_embeddings |->
                  IF entities # <<>> THEN get_embeddings(relations) ELSE <<>>,
              summary_embeddings |->
                  IF summaries # <<>> THEN get_embeddings(summaries) ELSE <<>>,
              entities_metadata |-> Metadata(entities, "entity"),
              relations_metadata |-> Metadata(relations, "relation"),
              summaries_metadata |-> Metadata(summaries, "summary")]

\* extracted_data is what extract_entity_relation(msg) returns in the call
process_message_for_database ==
    /\ processed' = Processed(extracted_data)
    /\ UNCHANGED extracted_data

NoExtraction ==
    [error |-> FALSE, raw_output |-> FALSE, entities |-> <<>>,
     relations |-> <<>>, summary |-> ""]

\* no message has been processed
MessageIdle ==
    /\ extracted_data = NoExtraction
    /\ processed = NotProcessed

----------------------------------------------------------------------------
(* Specification *)

\* the rows a collaborator has inserted: any stage, score inputs and age
Rows(cols) ==
    {r \in [memory_id : MemIds, user_id : Users,
            base_score : BaseScores, emotional_weight : EmotionalWeights,
            access_count : {0}, last_accessed : {NoTime},
            created_at : CreatedDays, compression_ratio : Ratios,
            forgetting_stage : {Stages[i] : i \in 1..4},
            compressed_content : {NoText},
            content : {NoText, Content2, Content5}] :
        /\ r.content = IF "content" \in cols THEN ContentOf(r.memory_id) ELSE NoText
        \* the ratio is read at stage intact only
        /\ r.forgetting_stage # "intact" => r.compression_ratio = DefaultRatio}

\* the engine is imported with a valid configuration, no call is under
\* way, and the collections are empty
Started ==
    /\ increments = [m \in MemIds |-> 0]
    /\ pass = NoPass
    /\ passes = NoPasses
    /\ Configured
    /\ DatabaseIdle
    /\ MessageIdle

\* the steps of the engine leave the configuration and the collections
\* alone, and a step of a whole call leaves no call under way
Elsewhere ==
    UNCHANGED <<pass, passes, config_vars, database_vars, message_vars>>

\* The first row inserted is never the older one, so that ORDER BY
\* created_at differs from rowid order or ties; it stores a low base_score
\* and emotional_weight;
\* the second row keeps the column defaults of memory_scores for
\* base_score, emotional_weight and compression_ratio.  (No code path
\* reads the two score columns, see calculate_memory_score.)
Init ==
    /\ columns \in {EngineColumns, ExistingColumns}
    /\ threshold \in Thresholds
    /\ memory_scores \in [MemIds -> Rows(columns)]
    /\ \A m \in MemIds : memory_scores[m].memory_id = m
    /\ memory_scores["m1"].user_id = "u1"
    /\ memory_scores["m1"].created_at = YoungestDay
    /\ memory_scores["m1"].base_score = LowBase
    /\ memory_scores["m1"].emotional_weight = LowEmotional
    /\ memory_scores["m2"].base_score = DefaultBase
    /\ memory_scores["m2"].emotional_weight = 0
    /\ memory_scores["m2"].compression_ratio = DefaultRatio
    /\ forgetting_log = <<>>
    /\ now = StartDay
    /\ result = NoResult
    /\ Started

RECURSIVE Sum(_, _)
Sum(f, S) ==
    IF S = {} THEN 0
    ELSE LET x == CHOOSE y \in S : TRUE IN f[x] + Sum(f, S \ {x})

\* the read accesses so far, over all memories
Accesses == Sum([m \in MemIds |-> memory_scores[m].access_count], MemIds)

\* all the rows of the pass fit in the modelled part of the log
LogRoom(user_id, dry_run) ==
    dry_run \/ Len(forgetting_log) + Len(ActiveMemories(user_id)) <= MaxLog

Next ==
    \/ \E user_id \in Users, dry_run \in BOOLEAN :
          /\ LogRoom(user_id, dry_run)
          /\ execute_forgetting(user_id, dry_run)
          /\ Elsewhere
    \/ \E memory_id \in MemIds :
          /\ Accesses < MaxAccess
          /\ update_access_count(memory_id)
          /\ Elsewhere
    \/ now < StartDay + MaxTicks * TickDays /\ Tick /\ Elsewhere

Spec == Init /\ [][Next]_vars

\* A store in which the content of one row is NULL: a record the
\* collaborator stored without its text.
MalformedInit ==
    /\ columns = ExistingColumns
    /\ threshold \in Thresholds
    /\ \E rows \in [MemIds -> Rows(ExistingColumns)], bad \in MemIds :
          /\ \A m \in MemIds : rows[m].memory_id = m
          /\ rows["m1"].user_id = "u1"
          /\ rows["m1"].created_at = YoungestDay
          /\ rows["m1"].base_score = LowBase
          /\ rows["m1"].emotional_weight = LowEmotional
          /\ rows["m2"].base_score = DefaultBase
          /\ rows["m2"].emotional_weight = 0
          /\ rows["m2"].compression_ratio = DefaultRatio
          /\ memory_scores = [rows EXCEPT ![bad].content = NoText]
    /\ forgetting_log = <<>>
    /\ now = StartDay
    /\ result = NoResult
    /\ Started

MalformedSpec == MalformedInit /\ [][Next]_vars

\* A store in which the created_at of one row is later than now: the row
\* was written by a collaborator whose clock is ahead.
SkewedInit ==
    /\ columns = ExistingColumns
    /\ threshold \in Thresholds
    /\ \E rows \in [MemIds -> Rows(ExistingColumns)], skewed \in MemIds :
          /\ \A m \in MemIds : rows[m].memory_id = m
          /\ rows["m1"].user_id = "u1"
          /\ rows["m1"].created_at = YoungestDay
          /\ rows["m1"].base_score = LowBase
          /\ rows["m1"].emotional_weight = LowEmotional
          /\ rows["m2"].base_score = DefaultBase
          /\ rows["m2"].emotional_weight = 0
          /\ rows["m2"].compression_ratio = DefaultRatio
          /\ memory_scores = [rows EXCEPT ![skewed].created_at = SkewedDay]
    /\ forgetting_log = <<>>
    /\ now = StartDay
    /\ result = NoResult
    /\ Started

SkewedSpec == SkewedInit /\ [][Next]_vars

\* Compression runs: the first row is an intact memory with the column
\* defaults and any of the texts as its content, and passes compress it.
Texts ==
    {Join(sentences) :
       sentences \in UNION {[1..n -> Sentences] : n \in 1..MaxSentences}}

CompressInit ==
    /\ columns = ExistingColumns
    /\ threshold = DefaultThreshold
    /\ \E content \in Texts, created_at \in CreatedDays :
          memory_scores =
            [m \in MemIds |->
               [memory_id |-> m,
                user_id |-> IF m = "m1" THEN "u1" ELSE "u2",
                base_score |-> DefaultBase, emotional_weight |-> 0,
                access_count |-> 0, last_accessed |-> NoTime,
                created_at |-> created_at,
                compression_ratio |-> DefaultRatio,
                forgetting_stage |-> "intact",
                compressed_content |-> NoText,
                content |-> IF m = "m1" THEN content ELSE Content2]]
    /\ forgetting_log = <<>>
    /\ now = StartDay
    /\ result = NoResult
    /\ Started

CompressNext ==
    \E user_id \in Users :
        /\ LogRoom(user_id, FALSE)
        /\ execute_forgetting(user_id, FALSE)
        /\ Elsewhere

CompressSpec == CompressInit /\ [][CompressNext]_vars

\* The default configuration: config.json defines no forgetting_threshold.
UndefinedInit ==
    /\ columns = ExistingColumns
    /\ threshold = NoThreshold
    /\ memory_scores \in [MemIds -> Rows(ExistingColumns)]
    /\ \A m \in MemIds : memory_scores[m].memory_id = m
    /\ memory_scores["m1"].user_id = "u1"
    /\ memory_scores["m1"].created_at = YoungestDay
    /\ memory_scores["m1"].base_score = LowBase
    /\ memory_scores["m1"].emotional_weight = LowEmotional
    /\ memory_scores["m2"].base_score = DefaultBase
    /\ memory_scores["m2"].emotional_weight = 0
    /\ memory_scores["m2"].compression_ratio = DefaultRatio
    /\ forgetting_log = <<>>
    /\ now = StartDay
    /\ result = NoResult
    /\ Started

UndefinedSpec == UndefinedInit /\ [][Next]_vars

\* Calls of update_access_count from other threads while a pass without
\* dry_run is under way.
ConcurrentInit ==
    /\ Init
    /\ columns = ExistingColumns

ConcurrentNext ==
    \/ \E user_id \in Users :
          /\ LogRoom(user_id, FALSE)
          /\ execute_forgetting_select(user_id)
          /\ UNCHANGED <<passes, config_vars, database_vars, message_vars>>
    \/ execute_forgetting_iterate /\ UNCHANGED <<passes, config_vars, database_vars, message_vars>>
    \/ execute_forgetting_commit /\ UNCHANGED <<passes, config_vars, database_vars, message_vars>>
    \/ \E memory_id \in MemIds :
          /\ ~WriteLocked
          /\ Accesses < MaxAccess
          /\ update_access_count(memory_id)
          /\ Elsewhere

ConcurrentSpec == ConcurrentInit /\ [][ConcurrentNext]_vars

\* Passes without dry_run that may be interrupted at any statement.
InterruptedNext ==
    \/ \E user_id \in Users :
          /\ LogRoom(user_id, FALSE)
          /\ execute_forgetting_select(user_id)
          /\ UNCHANGED <<passes, config_vars, database_vars, message_vars>>
    \/ execute_forgetting_iterate
          /\ UNCHANGED <<passes, config_vars, database_vars, message_vars>>
    \/ execute_forgetting_commit
          /\ UNCHANGED <<passes, config_vars, database_vars, message_vars>>
    \/ execute_forgetting_interrupt
          /\ UNCHANGED <<passes, config_vars, database_vars, message_vars>>
    \/ \E memory_id \in MemIds :
          /\ ~WriteLocked
          /\ Accesses < MaxAccess
          /\ update_access_count(memory_id)
          /\ Elsewhere

InterruptedSpec == ConcurrentInit /\ [][InterruptedNext]_vars

\* Two threads that run passes without dry_run, while memories are
\* accessed and time goes by.
RacingNext ==
    \/ \E p \in PassIds, user_id \in Users :
          /\ Len(forgetting_log) + Pending + Len(ActiveMemories(user_id))
               <= MaxLog
          /\ pass_select(p, user_id)
          /\ UNCHANGED <<pass, config_vars, database_vars, message_vars>>
    \/ \E p \in PassIds :
          /\ pass_evaluate(p)
          /\ UNCHANGED <<pass, config_vars, database_vars, message_vars>>
    \/ \E p \in PassIds :
          /\ pass_update(p)
          /\ UNCHANGED <<pass, config_vars, database_vars, message_vars>>
    \/ \E p \in PassIds :
          /\ pass_raise(p)
          /\ UNCHANGED <<pass, config_vars, database_vars, message_vars>>
    \/ \E p \in PassIds :
          /\ pass_commit(p)
          /\ UNCHANGED <<pass, config_vars, database_vars, message_vars>>
    \/ \E memory_id \in MemIds :
          /\ \A p \in PassIds : ~(Running(p) /\ passes[p].st.log # <<>>)
          /\ Accesses < MaxAccess
          /\ update_access_count(memory_id)
          /\ Elsewhere
    \/ now < StartDay + MaxTicks * TickDays /\ Tick /\ Elsewhere

RacingSpec == ConcurrentInit /\ [][RacingNext]_vars

\* Before the engine is imported: no table, no row, no call.
EngineIdle ==
    /\ columns = {}
    /\ threshold = NoThreshold
    /\ memory_scores = <<>>
    /\ forgetting_log = <<>>
    /\ now = StartDay
    /\ result = NoResult
    /\ increments = <<>>
    /\ pass = NoPass
    /\ passes = NoPasses

engine_vars == <<columns, threshold, memory_scores, forgetting_log, now,
                 result, increments, pass, passes>>

\* Constructions of a ConfigManager on whatever is at the path.
ConfigInit ==
    /\ EngineIdle
    /\ config_file \in ConfigFiles
    /\ config_manager = NotConstructed
    /\ DatabaseIdle
    /\ MessageIdle

ConfigNext ==
    \/ ConfigManager /\ UNCHANGED <<engine_vars, database_vars, message_vars>>
    \/ \E file \in ConfigFiles :
          WriteConfigFile(file) /\ UNCHANGED <<engine_vars, database_vars, message_vars>>

ConfigSpec == ConfigInit /\ [][ConfigNext]_vars

\* Store calls on one MemoryDatabase, as the clock goes on.
DatabaseInit ==
    /\ EngineIdle
    /\ Configured
    /\ DatabaseIdle
    /\ MessageIdle

DatabaseNext ==
    \/ \E n \in 0..MaxTexts :
          /\ passed["entity"] + n <= MaxPassed
          /\ store_entities(n)
          /\ UNCHANGED <<engine_vars, config_vars, message_vars>>
    \/ \E n \in 0..MaxTexts :
          /\ passed["relation"] + n <= MaxPassed
          /\ store_relations(n)
          /\ UNCHANGED <<engine_vars, config_vars, message_vars>>
    \/ \E n \in 0..MaxTexts :
          /\ passed["summary"] + n <= MaxPassed
          /\ store_summaries(n)
          /\ UNCHANGED <<engine_vars, config_vars, message_vars>>
    \/ instant < MaxInstant /\ TickInstant
                            /\ UNCHANGED <<engine_vars, config_vars, message_vars>>

DatabaseSpec == DatabaseInit /\ [][DatabaseNext]_vars

\* A message is processed, whatever the extraction makes of it.
MessageInit ==
    /\ EngineIdle
    /\ Configured
    /\ DatabaseIdle
    /\ extracted_data \in ExtractionResults
    /\ processed = NotProcessed

MessageNext ==
    /\ processed = NotProcessed
    /\ process_message_for_database
    /\ UNCHANGED <<engine_vars, config_vars, database_vars>>

MessageSpec == MessageInit /\ [][MessageNext]_vars

\* Passes that go on for ever: the default configuration on a table with a
\* content column, passes running whether or not their log rows still fit
\* in the modelled part of the log, and every user's pass run again and
\* again.
FairInit ==
    /\ Init
    /\ columns = ExistingColumns
    /\ threshold = DefaultThreshold

FairNext ==
    \/ \E user_id \in Users, dry_run \in BOOLEAN :
          execute_forgetting(user_id, dry_run) /\ Elsewhere
    \/ \E memory_id \in MemIds :
          /\ Accesses < MaxAccess
          /\ update_access_count(memory_id)
          /\ Elsewhere
    \/ now < StartDay + MaxTicks * TickDays /\ Tick /\ Elsewhere

FairSpec ==
    /\ FairInit
    /\ [][FairNext]_vars
    /\ \A user_id \in Users :
         WF_vars(execute_forgetting(user_id, FALSE) /\ Elsewhere)

----------------------------------------------------------------------------
(* Definitions for the properties *)

StageIndex(stage) == CHOOSE i \in 1..4 : Stages[i] = stage

Range(seq) == {seq[i] : i \in 1..Len(seq)}

\* the log rows a step has appended
Appended == SubSeq(forgetting_log', Len(forgetting_log) + 1, Len(forgetting_log'))

AppendedFor(m) == {i \in 1..Len(Appended) : Appended[i].memory_id = m}

\* every id a summary lists, over its four lists
Listed(actions) ==
    actions.compressed \o actions.archived \o actions.forgotten \o actions.retained

Owner(m) == memory_scores[m].user_id

StageOf(m) == memory_scores[m].forgetting_stage

\* the last call returned a summary of a pass over the memories of user_id
Returned(user_id, dry_run) ==
    /\ result.kind = "summary"
    /\ result.user_id = user_id
    /\ result.dry_run = dry_run

\* the step ends a call execute_forgetting(user_id, dry_run): the outcome
\* is of such a call, and the step is no clock tick and no read access
Called(user_id, dry_run) ==
    /\ result'.kind # "none"
    /\ result'.user_id = user_id
    /\ result'.dry_run = dry_run
    /\ now' = now
    /\ \A m \in MemIds :
         memory_scores'[m].access_count = memory_scores[m].access_count

LogHas(m, old_stage, new_stage) ==
    \E i \in 1..Len(forgetting_log) :
        /\ forgetting_log[i].memory_id = m
        /\ forgetting_log[i].old_stage = old_stage
        /\ forgetting_log[i].new_stage = new_stage

----------------------------------------------------------------------------
(* C1: whatever passes (dry-run or not) and update_access_count calls run,  *)
(* a step that changes a memory's forgetting_stage moves it to the          *)
(* immediate successor in intact -> compressed -> archived -> forgotten:    *)
(* no regression, no skip, at most one step per pass.                       *)
C1_StageStepsToSuccessor ==
    [][\A m \in MemIds :
         StageOf(m)' # StageOf(m)
           => StageIndex(StageOf(m)') = StageIndex(StageOf(m)) + 1]_vars

\* one memory has gone compressed -> archived -> forgotten in two passes
C1_Witness ==
    \E m \in MemIds :
        /\ StageOf(m) = "forgotten"
        /\ LogHas(m, "compressed", "archived")
        /\ LogHas(m, "archived", "forgotten")

(* C2: a forgotten memory is terminal for passes: execute_forgetting does   *)
(* not list it as active, puts it in no list of the summary, changes none   *)
(* of its fields and appends no log row for it.                             *)
C2_ForgottenIsTerminal ==
    [][\A user_id \in Users, dry_run \in BOOLEAN :
         Called(user_id, dry_run) /\ execute_forgetting(user_id, dry_run)
           => \A m \in MemIds :
                StageOf(m) = "forgotten"
                  => /\ m \notin Range(ActiveMemories(user_id))
                     /\ m \notin Range(Listed(result'.actions))
                     /\ memory_scores'[m] = memory_scores[m]
                     /\ AppendedFor(m) = {}]_vars

\* a pass over a user who owns a forgotten memory and an active one has
\* returned: it lists the active one, and the forgotten one was not touched
C2_Witness ==
    \E m, other \in MemIds :
        /\ StageOf(m) = "forgotten"
        /\ memory_scores[m].last_accessed = NoTime
        /\ Returned(Owner(m), FALSE)
        /\ Owner(other) = Owner(m)
        /\ other \in Range(Listed(result.actions))

(* C3: a pass with dry_run = true has no side effect: the rows of           *)
(* memory_scores and the forgetting_log are the same before and after, and  *)
(* compress_memory is not called.                                           *)
C3_DryRunHasNoSideEffect ==
    [][\A user_id \in Users :
         Called(user_id, TRUE) /\ execute_forgetting(user_id, TRUE)
           => /\ memory_scores' = memory_scores
              /\ forgetting_log' = forgetting_log
              /\ result'.compress_calls = <<>>]_vars

\* a dry run has reported a memory as forgotten, and the memory is still
\* in its stage, never accessed
C3_Witness ==
    \E m \in MemIds :
        /\ Returned(Owner(m), TRUE)
        /\ m \in Range(result.actions.forgotten)
        /\ StageOf(m) # "forgotten"
        /\ memory_scores[m].last_accessed = NoTime

(* C4: on every store state and for every user, the ids a dry-run pass      *)
(* lists as forgotten are the ids a pass without dry_run lists as           *)
(* forgotten on the same state.                                             *)
C4_DryRunForgetsWhatARealPassForgets ==
    \A user_id \in Users :
        ~Pass(user_id, TRUE).raised /\ ~Pass(user_id, FALSE).raised
          => Range(Pass(user_id, TRUE).actions.forgotten)
               = Range(Pass(user_id, FALSE).actions.forgotten)

(* C5: every stage change from s to s2 that a pass without dry_run commits  *)
(* for a memory appends exactly one forgetting_log row with that memory_id, *)
(* old_stage = s and new_stage = s2.                                        *)
C5_OneLogRowPerTransition ==
    [][\A user_id \in Users :
         Called(user_id, FALSE) /\ execute_forgetting(user_id, FALSE)
           => \A m \in MemIds :
                StageOf(m)' # StageOf(m)
                  => /\ Cardinality(AppendedFor(m)) = 1
                     /\ \A i \in AppendedFor(m) :
                          /\ Appended[i].old_stage = StageOf(m)
                          /\ Appended[i].new_stage = StageOf(m)']_vars

\* a pass has just compressed a memory and logged intact -> compressed
C5_Witness ==
    \E m \in MemIds :
        /\ Returned(Owner(m), FALSE)
        /\ m \in Range(result.actions.compressed)
        /\ StageOf(m) = "compressed"
        /\ forgetting_log # <<>>
        /\ forgetting_log[Len(forgetting_log)] =
              LogEntry(m, "intact", "compressed",
                       forgetting_log[Len(forgetting_log)].reason)

(* C6: the summary execute_forgetting returns is a partition of the user's  *)
(* active memories: every memory of the user that is not forgotten when     *)
(* the pass starts is on exactly one of the four lists, exactly once, and   *)
(* no other id is on any list.                                              *)
C6_SummaryPartitionsActiveMemories ==
    [][\A user_id \in Users, dry_run \in BOOLEAN :
         Called(user_id, dry_run) /\ result'.kind = "summary"
                                  /\ execute_forgetting(user_id, dry_run)
           => LET listed == Listed(result'.actions)
              IN  /\ \A m \in MemIds :
                       Owner(m) = user_id /\ StageOf(m) # "forgotten"
                         => Cardinality({i \in 1..Len(listed) : listed[i] = m}) = 1
                  /\ \A i \in 1..Len(listed) :
                       /\ Owner(listed[i]) = user_id
                       /\ StageOf(listed[i]) # "forgotten"]_vars

\* one pass has put the two memories of a user on two different lists
C6_Witness ==
    \E m, other \in MemIds :
        /\ Returned(Owner(m), FALSE)
        /\ Owner(other) = Owner(m)
        /\ Len(Listed(result.actions)) = 2
        /\ m \in Range(result.actions.retained)
        /\ other \in Range(result.actions.compressed)
                     \cup Range(result.actions.archived)
                     \cup Range(result.actions.forgotten)

(* C7: in a pass without dry_run an intact memory moves to compressed if    *)
(* and only if its stored compression_ratio is above 0.7, whatever its      *)
(* score; an intact memory of ratio 0.7 or less (0 included) stays intact.  *)
C7_CompressedIffRatioAbove07 ==
    [][\A user_id \in Users :
         Called(user_id, FALSE) /\ result'.kind = "summary"
                                /\ execute_forgetting(user_id, FALSE)
           => \A m \in MemIds :
                Owner(m) = user_id /\ StageOf(m) = "intact"
                  => IF memory_scores[m].compression_ratio > 7000
                     THEN StageOf(m)' = "compressed"
                     ELSE StageOf(m)' = "intact"]_vars

(* C8: in a pass without dry_run a compressed memory moves to archived,     *)
(* and an archived memory to forgotten, if and only if the score computed   *)
(* for it in that pass is strictly below the forgetting threshold;          *)
(* otherwise it keeps its stage and is listed as retained.                  *)
C8_ArchivedOrForgottenIffScoreBelowThreshold ==
    [][\A user_id \in Users :
         Called(user_id, FALSE) /\ result'.kind = "summary"
                                /\ execute_forgetting(user_id, FALSE)
           => \A m \in MemIds :
                Owner(m) = user_id /\ StageOf(m) \in {"compressed", "archived"}
                  => IF calculate_memory_score(memory_scores[m], now).final_score
                          < threshold
                     THEN /\ StageIndex(StageOf(m)') = StageIndex(StageOf(m)) + 1
                          /\ m \in Range(result'.actions[StageOf(m)'])
                     ELSE /\ StageOf(m)' = StageOf(m)
                          /\ m \in Range(result'.actions.retained)]_vars

\* the record of the scenario: created 60 days ago, base 0.5, emotional 0,
\* never accessed, archived, threshold 0.2; its score is 0.2406 and a pass
\* has left it archived
C8_Witness ==
    \E m \in MemIds :
        /\ threshold = DefaultThreshold
        /\ now - memory_scores[m].created_at = 60
        /\ memory_scores[m].base_score = DefaultBase
        /\ memory_scores[m].emotional_weight = 0
        /\ memory_scores[m].access_count = 0
        /\ calculate_memory_score(memory_scores[m], now).final_score = 24059
        /\ Returned(Owner(m), FALSE)
        /\ m \in Range(result.actions.retained)
        /\ StageOf(m) = "archived"

\* the score of section 4.1, from the values stored in the row
StoredScore(row, t) ==
    4 * row.base_score + 3 * Exp30(t - row.created_at)
      + 2 * row.emotional_weight + Min(row.access_count * 1000, 5000)

(* C9: the score a pass computes for a stored record is                     *)
(* base*0.4 + recency*0.3 + emotional*0.2 + frequency*0.1 over the base     *)
(* importance and emotional value stored in the record, so a record with a  *)
(* higher stored base importance or emotional value gets a higher score.    *)
C9_ScoreUsesStoredBaseAndEmotional ==
    \A m \in MemIds :
        LET row == memory_scores[m]
            Score(r) == calculate_memory_score(r, now).final_score
        IN  /\ Score(row) = StoredScore(row, now)
            /\ \A b \in BaseScores :
                 b > row.base_score => Score([row EXCEPT !.base_score = b]) > Score(row)
            /\ \A e \in EmotionalWeights :
                 e > row.emotional_weight
                   => Score([row EXCEPT !.emotional_weight = e]) > Score(row)

(* C10: under repeated passes without dry_run for a user, every memory of   *)
(* that user whose score by the formula of section 4.1 stays below the      *)
(* forgetting threshold eventually reaches stage forgotten, from any        *)
(* starting stage and any compression_ratio, with the default               *)
(* configuration.                                                           *)
C10_LowScoreMemoryIsEventuallyForgotten ==
    \A m \in MemIds :
        [](StoredScore(memory_scores[m], now) < threshold)
          => <>(StageOf(m) = "forgotten")

(* C11: an error raised while a pass processes one memory does not abort    *)
(* the pass: execute_forgetting returns a summary, the memory whose         *)
(* processing failed is listed as retained and keeps its stage, and every   *)
(* other active memory of the user is evaluated and its outcome applied.    *)
C11_PerMemoryErrorDoesNotAbortThePass ==
    [][\A user_id \in Users :
         Called(user_id, FALSE) /\ execute_forgetting(user_id, FALSE)
           => /\ result'.kind = "summary"
              /\ \A m \in Range(ActiveMemories(user_id)) :
                   LET compress == /\ StageOf(m) = "intact"
                                   /\ should_compress(memory_scores[m])
                       sf == should_forget(memory_scores[m], now, threshold)
                   IN  IF compress /\ memory_scores[m].content = NoText
                       THEN /\ m \in Range(result'.actions.retained)
                            /\ StageOf(m)' = StageOf(m)
                       ELSE /\ m \in Range(Listed(result'.actions))
                            /\ StageOf(m)' = NewStage(StageOf(m), compress,
                                                      sf[1])]_vars

\* the step is a pass that compresses memory m
Compresses(m) ==
    /\ Called(Owner(m), FALSE)
    /\ result'.kind = "summary"
    /\ m \in Range(result'.compress_calls)
    /\ execute_forgetting(Owner(m), FALSE)

\* the least index of an interior sentence of maximal length
EarliestLongest(sentences) ==
    CHOOSE i \in 2..(Len(sentences) - 1) :
        /\ \A j \in 2..(Len(sentences) - 1) :
             Len(sentences[j]) <= Len(sentences[i])
        /\ \A j \in 2..(i - 1) : Len(sentences[j]) < Len(sentences[i])

(* C12: compress_memory on content of more than 3 sentences (split on       *)
(* ". ") returns the marker followed by exactly three sentences joined by   *)
(* ". ": the first sentence, the earliest longest interior sentence, the    *)
(* last sentence.                                                           *)
C12_CompressedIsFirstLongestLast ==
    [][\A m \in MemIds :
         Compresses(m) /\ Len(Split(memory_scores[m].content)) > 3
           => LET sentences == Split(memory_scores[m].content)
                  compressed == memory_scores'[m].compressed_content
              IN  /\ SubSeq(compressed, 1, Len(Marker)) = Marker
                  /\ Split(SubSeq(compressed, Len(Marker) + 1, Len(compressed)))
                       = <<sentences[1],
                           sentences[EarliestLongest(sentences)],
                           sentences[Len(sentences)]>>]_vars

(* C13: compress_memory returns content of 3 or fewer sentences unchanged,  *)
(* without the marker, so compressing the result again gives the result.    *)
C13_ShortContentIsUnchanged ==
    [][\A m \in MemIds :
         Compresses(m) /\ Len(Split(memory_scores[m].content)) <= 3
           => LET compressed == memory_scores'[m].compressed_content
              IN  /\ compressed = memory_scores[m].content
                  /\ compress_memory(compressed) = compressed]_vars

\* a pass has compressed a content of exactly three sentences, two of them
\* empty, and stored it as it was
C13_Witness ==
    \E m \in MemIds :
        /\ StageOf(m) = "compressed"
        /\ m \in Range(result.compress_calls)
        /\ Len(Split(memory_scores[m].content)) = 3
        /\ memory_scores[m].content = <<".", " ", "a", "a", ".", " ">>
        /\ memory_scores[m].compressed_content = memory_scores[m].content

(* C14: a pass for user u changes only records whose user_id is u and       *)
(* appends log rows only for memories of u: the records of every other      *)
(* user and the log rows already there are the same before and after.       *)
C14_PassTouchesOneUserOnly ==
    [][\A user_id \in Users, dry_run \in BOOLEAN :
         Called(user_id, dry_run) /\ execute_forgetting(user_id, dry_run)
           => /\ \A m \in MemIds :
                   Owner(m) # user_id
                     => /\ memory_scores'[m] = memory_scores[m]
                        /\ AppendedFor(m) = {}
              /\ SubSeq(forgetting_log', 1, Len(forgetting_log))
                   = forgetting_log]_vars

\* a pass has compressed the memory of one user and has left alone the
\* intact memory of the other user, which a pass of its owner compresses
C14_Witness ==
    \E m, other \in MemIds :
        /\ Owner(other) # Owner(m)
        /\ Returned(Owner(m), FALSE)
        /\ result.actions.compressed = <<m>>
        /\ StageOf(m) = "compressed"
        /\ StageOf(other) = "intact"
        /\ should_compress(memory_scores[other])
        /\ memory_scores[other].last_accessed = NoTime
        /\ \A i \in 1..Len(forgetting_log) : forgetting_log[i].memory_id = m

(* C15: the access_count of every memory never decreases:                   *)
(* update_access_count raises the access_count of the named memory by       *)
(* exactly 1 and changes no other record, and no pass changes any           *)
(* access_count.                                                            *)
C15_AccessCountOnlyIncreases ==
    [][/\ \A m \in MemIds :
            memory_scores'[m].access_count >= memory_scores[m].access_count
       /\ \A memory_id \in MemIds :
            update_access_count(memory_id)
              => /\ memory_scores'[memory_id].access_count
                      = memory_scores[memory_id].access_count + 1
                 /\ \A m \in MemIds \ {memory_id} :
                      memory_scores'[m] = memory_scores[m]
       /\ \A user_id \in Users, dry_run \in BOOLEAN :
            Called(user_id, dry_run) /\ execute_forgetting(user_id, dry_run)
              => \A m \in MemIds :
                   memory_scores'[m].access_count
                     = memory_scores[m].access_count]_vars

\* a memory was accessed once, and a later pass has moved it to another
\* stage; its access_count is still 1
C15_Witness ==
    \E m \in MemIds :
        /\ memory_scores[m].access_count = 1
        /\ Returned(Owner(m), FALSE)
        /\ m \in Range(result.actions.compressed)
                 \cup Range(result.actions.archived)
                 \cup Range(result.actions.forgotten)

(* C17: a memory that a pass without dry_run retains is retained again by   *)
(* a second pass run right after it, at the same clock value and with no    *)
(* access in between; and when a pass returns every active memory as        *)
(* retained, the next such pass returns the same summary and changes no     *)
(* stage.                                                                   *)
C17_RetainedIsRetainedAgain ==
    [][\A user_id \in Users :
         Called(user_id, FALSE) /\ result'.kind = "summary"
                                /\ execute_forgetting(user_id, FALSE)
           => \A again \in {Pass(user_id, FALSE)'} :
                  /\ ~again.raised
                  /\ \A m \in Range(result'.actions.retained) :
                       /\ m \in Range(again.actions.retained)
                       /\ again.rows[m].forgetting_stage = StageOf(m)'
                  /\ Listed(result'.actions) = result'.actions.retained
                       => /\ again.actions = result'.actions
                          /\ \A m \in MemIds :
                               again.rows[m].forgetting_stage = StageOf(m)']_vars

\* two passes in a row, with no tick and no access before or between
\* them, have both retained the one active memory of a user
C17_Witness ==
    \E m \in MemIds :
        /\ Returned(Owner(m), FALSE)
        /\ result.actions = [NoActions EXCEPT !.retained = <<m>>]
        /\ now = StartDay
        /\ \A other \in MemIds : memory_scores[other].access_count = 0
        /\ Len(forgetting_log) = 2
        /\ \A i \in 1..2 :
             forgetting_log[i] = LogEntry(m, StageOf(m), StageOf(m),
                                          forgetting_log[i].reason)

(* C16: when update_access_count calls for a memory interleave with a pass  *)
(* without dry_run that processes the memory, no increment is lost: once    *)
(* the pass is over, the access_count of the memory is its initial value,   *)
(* 0, plus the number of completed increments.                              *)
C16_NoIncrementIsLost ==
    ~InProgress
      => \A m \in MemIds : memory_scores[m].access_count = increments[m]

\* a pass has selected a memory, the memory was then accessed, and the pass
\* has moved it to another stage and has committed
C16_Witness ==
    \E m \in MemIds :
        /\ pass.phase = "done"
        /\ m \in Range(pass.memories)
        /\ pass.selected_at[m] = 0
        /\ increments[m] = 1
        /\ Returned(Owner(m), FALSE)
        /\ m \in Range(result.actions.compressed)
                 \cup Range(result.actions.archived)
        /\ memory_scores[m].access_count = 1

(* C18: the engine does not run with an undefined threshold: when the       *)
(* configuration defines no forgetting_threshold, execute_forgetting fails  *)
(* (with a ConfigurationError) and evaluates no memory.                     *)
C18_UndefinedThresholdIsFatal ==
    [][\A user_id \in Users, dry_run \in BOOLEAN :
         Called(user_id, dry_run) /\ execute_forgetting(user_id, dry_run)
                                  /\ threshold = NoThreshold
           => /\ result'.kind = "raised"
              /\ result'.compress_calls = <<>>
              /\ memory_scores' = memory_scores
              /\ forgetting_log' = forgetting_log]_vars

\* the file exists, parses as JSON and has non-empty values for the three
\* required fields
Sound(file) ==
    /\ file.kind \notin {"missing", "directory", "garbage"}
    /\ \A field \in Required : file.fields[field] = "text"

(* C19: constructing a ConfigManager succeeds exactly when the config file  *)
(* exists, parses as JSON and has non-empty values for apiKey, chatModel    *)
(* and embeddingModel; in every other case the construction raises          *)
(* ConfigurationError and no other type of exception.                       *)
C19_ConstructionRaisesConfigurationErrorOnly ==
    [][ConfigManager
         => /\ config_manager'.state = "constructed" <=> Sound(config_file)
            /\ config_manager'.state # "constructed"
                 => /\ config_manager'.state = "raised"
                    /\ config_manager'.error.type = "ConfigurationError"]_vars

\* a construction on a file that holds a JSON number has raised
\* ConfigurationError (for the TypeError of the membership test)
C19_Witness ==
    /\ config_file.kind = "number"
    /\ config_manager.state = "raised"
    /\ config_manager.error = Raise("ConfigurationError", CONFIG_INVALID, <<>>)

(* C20: after any sequence of store calls on one MemoryDatabase, the count  *)
(* of each collection is the number of texts passed to its store method     *)
(* and the returned ids are pairwise distinct, also when two calls happen   *)
(* within the same clock second; a call with no text adds nothing.          *)
C20_CountIsTextsPassedAndIdsAreDistinct ==
    \A kind \in Kinds :
        /\ Cardinality(collections[kind]) = passed[kind]
        /\ \A i, j \in 1..Len(returned[kind]) :
             i # j => returned[kind][i] # returned[kind][j]

(* C21: for every extraction result, the value process_message_for_database *)
(* returns has as many entity_embeddings as entities, as many               *)
(* relation_embeddings as relations, as many summary_embeddings as          *)
(* summaries, and as many metadata entries as texts in each group, also     *)
(* when the extraction yields relations and no entity.                      *)
C21_OneEmbeddingAndOneMetadataPerText ==
    processed.kind = "returned"
      => /\ Len(processed.entity_embeddings) = Len(processed.entities)
         /\ Len(processed.relation_embeddings) = Len(processed.relations)
         /\ Len(processed.summary_embeddings) = Len(processed.summaries)
         /\ Len(processed.entities_metadata) = Len(processed.entities)
         /\ Len(processed.relations_metadata) = Len(processed.relations)
         /\ Len(processed.summaries_metadata) = Len(processed.summaries)

(* C22: the reason in the log row of a transition is the reason of the rule *)
(* that fired: "Ready for compression" for every intact -> compressed row,  *)
(* "Ready for archival" for every compressed -> archived row, and a         *)
(* "Low score" reason for every archived -> forgotten row.                  *)
C22_LoggedReasonIsTheRuleThatFired ==
    \A i \in 1..Len(forgetting_log) :
        LET entry == forgetting_log[i]
        IN  /\ entry.old_stage = "intact" /\ entry.new_stage = "compressed"
                 => entry.reason = "Ready for compression"
            /\ entry.old_stage = "compressed" /\ entry.new_stage = "archived"
                 => entry.reason = "Ready for archival"
            /\ entry.old_stage = "archived" /\ entry.new_stage = "forgotten"
                 => entry.reason = "Low score"

(* C26: on a table created by _init_database, a pass (dry-run or not) over  *)
(* a user with at least one active memory completes and returns a summary:  *)
(* no statement fails for a column the schema does not have.                *)
C26_PassOnTheEngineSchemaReturnsASummary ==
    [][\A user_id \in Users, dry_run \in BOOLEAN :
         Called(user_id, dry_run) /\ columns = EngineColumns
                                  /\ ActiveMemories(user_id) # <<>>
                                  /\ execute_forgetting(user_id, dry_run)
           => result'.kind = "summary"]_vars

(* C27: every row of forgetting_log records an actual stage change          *)
(* (old_stage differs from new_stage), no row being appended for a memory   *)
(* the pass retains, so that a memory never has more than 3 log rows.       *)
C27_EveryLogRowIsAStageChange ==
    /\ \A i \in 1..Len(forgetting_log) :
         forgetting_log[i].old_stage # forgetting_log[i].new_stage
    /\ \A m \in MemIds :
         Cardinality({i \in 1..Len(forgetting_log) :
                        forgetting_log[i].memory_id = m}) <= 3

(* C28: once a pass without dry_run has compressed a memory and stored its  *)
(* compressed content, the stored compressed content stays non-empty and    *)
(* the same through every later pass, whether that pass retains, archives   *)
(* or forgets the memory.                                                   *)
C28_CompressedContentIsKept ==
    [][\A m \in MemIds :
         memory_scores[m].compressed_content # NoText
           => memory_scores'[m].compressed_content
                = memory_scores[m].compressed_content]_vars

(* C30: the verdict of should_forget agrees with what the next pass without *)
(* dry_run does on the same state: the reason is "Ready for compression"    *)
(* exactly for the memories the pass compresses, "Ready for archival"       *)
(* exactly for those it archives, and should_forget is True exactly for     *)
(* those it moves to forgotten.                                             *)
C30_VerdictAgreesWithThePass ==
    \A user_id \in Users :
        \A st \in {Pass(user_id, FALSE)} :
            ~st.raised
              => \A m \in Range(ActiveMemories(user_id)) :
                   LET verdict == should_forget(memory_scores[m], now,
                                                forgetting_threshold)
                   IN  /\ verdict[2] = "Ready for compression"
                            <=> m \in Range(st.actions.compressed)
                       /\ verdict[2] = "Ready for archival"
                            <=> m \in Range(st.actions.archived)
                       /\ verdict[1] <=> m \in Range(st.actions.forgotten)

(* C23: the recency term of calculate_memory_score lies in (0, 1]: when     *)
(* created_at is later than now the calculation does not raise and the age  *)
(* is clamped to zero, giving recency exactly 1; and for ages that are not  *)
(* negative a larger age never gives a larger recency term.                 *)
C23_RecencyIsInZeroToOne ==
    \A m \in MemIds :
        LET age_days == now - memory_scores[m].created_at
            recency == calculate_memory_score(memory_scores[m], now).recency_boost
            later == calculate_memory_score(memory_scores[m], now + TickDays)
                       .recency_boost
        IN  /\ 0 < recency /\ recency <= 10000
            /\ age_days < 0 => recency = 10000
            /\ age_days >= 0 => later <= recency

(* C24: when a pass without dry_run is interrupted (crash or unhandled      *)
(* error) after it has processed some memories, the memories it has         *)
(* processed stay in their new stage with their log rows, durably, and the  *)
(* memories it had not reached are unchanged.                               *)
C24_InterruptedPassKeepsWhatItProcessed ==
    [][execute_forgetting_interrupt
         => /\ \A m \in Written(pass.st) :
                 memory_scores'[m].forgetting_stage
                   = pass.st.rows[m].forgetting_stage
            /\ forgetting_log' = Keep(forgetting_log \o pass.st.log)
            /\ \A m \in MemIds \ Written(pass.st) :
                 memory_scores'[m] = memory_scores[m]]_vars

\* the stage and the compressed content of a committed row
StageAndContent(row) == <<row.forgetting_stage, row.compressed_content>>

\* every log row of a stage change is of a record that has reached the
\* new stage
LogIsOfCommittedChanges ==
    \A i \in 1..Len(forgetting_log) :
        LET entry == forgetting_log[i]
        IN  entry.old_stage # entry.new_stage
              => StageIndex(StageOf(entry.memory_id))
                   >= StageIndex(entry.new_stage)

(* C25: in every committed state of the store, the stage and the compressed *)
(* content of a record were written together (both as the pass wrote them,  *)
(* or both as they were), and every log row of a stage change from s to s2  *)
(* is of a record whose committed stage has reached s2: an interruption at  *)
(* any point commits no log row of a stage change the record does not have. *)
C25_StageContentAndLogAreCommittedTogether ==
    [][/\ \A m \in MemIds :
            \/ StageAndContent(memory_scores'[m])
                 = StageAndContent(memory_scores[m])
            \/ /\ m \in Written(pass.st)
               /\ StageAndContent(memory_scores'[m])
                    = StageAndContent(pass.st.rows[m])
       /\ LogIsOfCommittedChanges']_vars

\* a pass was interrupted after it had compressed a memory and inserted
\* the log row: the committed row is intact, without compressed content,
\* and the log is empty
C25_Witness ==
    \E m \in MemIds :
        /\ pass.phase = "interrupted"
        /\ m \in Written(pass.st)
        /\ pass.st.rows[m].forgetting_stage = "compressed"
        /\ pass.st.rows[m].compressed_content # NoText
        /\ StageOf(m) = "intact"
        /\ memory_scores[m].compressed_content = NoText
        /\ forgetting_log = <<>>

\* no stage change of a memory is in the log twice
NoChangeIsLoggedTwice ==
    \A i, j \in 1..Len(forgetting_log) :
        /\ i < j
        /\ forgetting_log[i].old_stage # forgetting_log[i].new_stage
        => \/ forgetting_log[j].memory_id # forgetting_log[i].memory_id
           \/ forgetting_log[j].old_stage # forgetting_log[i].old_stage
           \/ forgetting_log[j].new_stage # forgetting_log[i].new_stage

(* C29: when two passes without dry_run for the same user interleave, each  *)
(* reading the stage of a memory and later writing the stage it decided on, *)
(* with access increments and clock ticks between their evaluations, no     *)
(* memory's committed stage goes back and no stage change is logged twice.  *)
C29_RacingPassesNeitherRegressNorLogTwice ==
    [][/\ \A m \in MemIds :
            StageIndex(StageOf(m)') >= StageIndex(StageOf(m))
       /\ NoChangeIsLoggedTwice']_vars

====
